---- MODULE Spec2Model ----
(***************************************************************************)
(* Closed-form conjugate updates for a Gaussian with known sigma:          *)
(* known_sigma_posterior and known_sigma_predictive of                     *)
(* tensorflow/contrib/distributions/python/ops/gaussian_conjugate_posteriors.py *)
(*                                                                         *)
(* Numbers are exact: a tensor element is a rational num/den in lowest     *)
(* terms, or the square root of one (root = TRUE), so that math_ops.sqrt   *)
(* and math_ops.square are computed and not assumed to cancel.  Floating   *)
(* point rounding is not modelled.                                         *)
(***************************************************************************)
EXTENDS Integers, Sequences, FiniteSets, TLC

(* ----------------------------- bounds ---------------------------------- *)
MaxNum == 2      \* prior means and observation sums are -MaxNum..MaxNum
MaxSig == 2      \* standard deviations are a/b with a, b in 1..MaxSig
MaxN == 2        \* observation counts are 0..MaxN
VecLen == 3      \* length of a vector-valued prior mean
NumCalls == 2    \* calls in flight at once

(* ------------------------ exact element arithmetic ---------------------- *)
Abs(x) == IF x < 0 THEN -x ELSE x

RECURSIVE Gcd(_, _)
Gcd(a, b) == IF b = 0 THEN a ELSE Gcd(b, a % b)

\* The rational a/b (b # 0) in lowest terms with a positive denominator.
Q(a, b) ==
  LET g == Gcd(Abs(a), Abs(b))
      sgn == IF b < 0 THEN -1 ELSE 1
  IN [num |-> (sgn * a) \div g, den |-> (sgn * b) \div g, root |-> FALSE]

IsSquare(k) == \E r \in 0..k : r * r = k
Root(k) == CHOOSE r \in 0..k : r * r = k

\* x + y, x * y, x / y on rationals (Python/TF +, *, / on one element).
EAdd(x, y) == Q(x.num * y.den + y.num * x.den, x.den * y.den)
EMul(x, y) == Q(x.num * y.num, x.den * y.den)
EDiv(x, y) == Q(x.num * y.den, x.den * y.num)

\* math_ops.square on one element: (sqrt q)^2 = q, (a/b)^2 = a^2/b^2.
ESquare(x) ==
  IF x.root THEN [x EXCEPT !.root = FALSE] ELSE Q(x.num * x.num, x.den * x.den)

\* math_ops.sqrt on one non-negative rational: rational when num and den are
\* perfect squares, the surd sqrt(num/den) otherwise.
ESqrt(x) ==
  IF IsSquare(x.num) /\ IsSquare(x.den)
    THEN Q(Root(x.num), Root(x.den))
    ELSE [x EXCEPT !.root = TRUE]

(* ------------------------------ tensors -------------------------------- *)
\* A tensor of rank 0 or 1: dtype, shape (<<>> or <<k>>) and its elements.
Tensor(dtype, shape, elems) == [dtype |-> dtype, shape |-> shape, elems |-> elems]
Scalar(dtype, x) == Tensor(dtype, <<>>, <<x>>)

Size(shape) == IF shape = <<>> THEN 1 ELSE shape[1]

\* Broadcast of two compatible shapes of rank <= 1.
BroadcastShape(a, b) ==
  IF a = <<>> THEN b
  ELSE IF b = <<>> THEN a
  ELSE IF a[1] = 1 THEN b ELSE a

\* Element i of t seen through a broadcast: a size-1 tensor repeats its element.
Elem(t, i) == IF Len(t.elems) = 1 THEN t.elems[1] ELSE t.elems[i]

\* Elementwise +, * and / with broadcasting; the result has the operands' dtype.
Add(x, y) ==
  LET shape == BroadcastShape(x.shape, y.shape)
  IN Tensor(x.dtype, shape, [i \in 1..Size(shape) |-> EAdd(Elem(x, i), Elem(y, i))])

Mul(x, y) ==
  LET shape == BroadcastShape(x.shape, y.shape)
  IN Tensor(x.dtype, shape, [i \in 1..Size(shape) |-> EMul(Elem(x, i), Elem(y, i))])

Div(x, y) ==
  LET shape == BroadcastShape(x.shape, y.shape)
  IN Tensor(x.dtype, shape, [i \in 1..Size(shape) |-> EDiv(Elem(x, i), Elem(y, i))])

\* math_ops.square and math_ops.sqrt, elementwise.
Square(x) == Tensor(x.dtype, x.shape, [i \in 1..Len(x.elems) |-> ESquare(x.elems[i])])
Sqrt(x) == Tensor(x.dtype, x.shape, [i \in 1..Len(x.elems) |-> ESqrt(x.elems[i])])

\* A Python number k used with tensor t: a scalar tensor of t's dtype.
Const(k, t) == Scalar(t.dtype, Q(k, 1))

\* math_ops.cast to a floating dtype: an integer k becomes the rational k/1, a
\* floating element keeps its value.
Cast(n, dtype) ==
  Tensor(dtype, n.shape,
         [i \in 1..Len(n.elems) |->
            IF n.dtype = "int32" THEN Q(n.elems[i], 1) ELSE n.elems[i]])

(* ------------------------------ Gaussian -------------------------------- *)
Gaussian(mu, sigma) == [type |-> "Gaussian", mu |-> mu, sigma |-> sigma]
IsGaussian(prior) == prior.type = "Gaussian"
\* prior.dtype: the element type of the distribution's parameters.
Dtype(prior) == prior.mu.dtype
\* The shape of a distribution: its parameters broadcast together.
GaussianShape(g) == BroadcastShape(g.mu.shape, g.sigma.shape)
\* The variance of a distribution: its standard deviation squared.
Variance(g) == Square(g.sigma)

(* --------------------------- call outcomes ------------------------------ *)
NoResult == [status |-> "none"]
Returned(g) == [status |-> "returned", value |-> g]
Raised(type, msg) == [status |-> "raised", type |-> type, msg |-> msg]

\* TypeError("Expected prior to be an instance of type Gaussian")
PriorTypeError == Raised("TypeError", <<"Expected prior to be an instance of type Gaussian">>)
\* TypeError("Observation sum s.dtype does not match prior dtype: %s vs. %s"
\*           % (s.dtype, prior.dtype))
DtypeError(sdtype, pdtype) ==
  Raised("TypeError",
         <<"Observation sum s.dtype does not match prior dtype: ", sdtype, " vs. ", pdtype>>)
\* Python's error for reading .dtype of an object that has none.
AttributeError == Raised("AttributeError", <<"object has no attribute 'dtype'">>)

(* ------------------------ known_sigma_posterior ------------------------- *)
\* sigmap_2 = 1.0/(1/sigma0_2 + n/sigma_2)
PosteriorSigmap2Inverted(sigma0_2, n, sigma_2) ==
  LET prec == Add(sigma0_2, Div(n, sigma_2))
  IN Div(Const(1, prec), prec)

\* The count n is left out: one observation is assumed.
PosteriorSigmap2OneObservation(sigma0_2, n, sigma_2) ==
  LET prec == Add(Div(Const(1, sigma0_2), sigma0_2), Div(Const(1, sigma_2), sigma_2))
  IN Div(Const(1, prec), prec)

PosteriorSigmap2(sigma0_2, n, sigma_2) ==
  LET prec == Add(Div(Const(1, sigma0_2), sigma0_2), Div(n, sigma_2))
  IN Div(Const(1, prec), prec)

\* mu=(prior.mu/sigma0_2 + s/sigma_2) * sigmap_2
PosteriorMuDivided(prior, sigma0_2, s, sigma_2, sigmap_2) ==
  Div(Add(Div(prior.mu, sigma0_2), Div(s, sigma_2)), sigmap_2)

\* Only the first element of prior.mu is used.
PosteriorMuFirstElement(prior, sigma0_2, s, sigma_2, sigmap_2) ==
  Mul(Add(Div(Scalar(prior.mu.dtype, prior.mu.elems[1]), sigma0_2), Div(s, sigma_2)), sigmap_2)

PosteriorMu(prior, sigma0_2, s, sigma_2, sigmap_2) ==
  Mul(Add(Div(prior.mu, sigma0_2), Div(s, sigma_2)), sigmap_2)

\* sigma=math_ops.sqrt(sigmap_2)
PosteriorSigmaNoSqrt(sigmap_2) == sigmap_2

PosteriorSigma(sigmap_2) == Sqrt(sigmap_2)

known_sigma_posterior(prior, sigma, s, n) ==
  IF ~IsGaussian(prior) THEN PriorTypeError
  ELSE IF s.dtype # Dtype(prior) THEN DtypeError(s.dtype, Dtype(prior))
  ELSE
    LET n_ == Cast(n, Dtype(prior))
        sigma0_2 == Square(prior.sigma)
        sigma_2 == Square(sigma)
        sigmap_2 == PosteriorSigmap2(sigma0_2, n_, sigma_2)
    IN Returned(Gaussian(PosteriorMu(prior, sigma0_2, s, sigma_2, sigmap_2),
                         PosteriorSigma(sigmap_2)))

(* ------------------------ known_sigma_predictive ------------------------ *)
\* sigmap_2 = 1.0/(1/sigma0_2 + n/sigma_2)
PredictiveSigmap2(sigma0_2, n, sigma_2) ==
  LET prec == Add(Div(Const(1, sigma0_2), sigma0_2), Div(n, sigma_2))
  IN Div(Const(1, prec), prec)

\* mu=(prior.mu/sigma0_2 + s/sigma_2) * sigmap_2
PredictiveMuWithNoise(prior, sigma0_2, s, sigma_2, sigmap_2) ==
  Mul(Add(Div(prior.mu, sigma0_2), Div(s, sigma_2)), Add(sigmap_2, sigma_2))

PredictiveMu(prior, sigma0_2, s, sigma_2, sigmap_2) ==
  Mul(Add(Div(prior.mu, sigma0_2), Div(s, sigma_2)), sigmap_2)

\* sigma=math_ops.sqrt(sigmap_2 + sigma_2)
PredictiveSigmaNoNoise(sigmap_2, sigma_2) == Sqrt(sigmap_2)

PredictiveSigma(sigmap_2, sigma_2) == Sqrt(Add(sigmap_2, sigma_2))

\* The two checks in the other order: s.dtype is compared with prior.dtype first.
known_sigma_predictive_dtype_first(prior, sigma, s, n) ==
  IF ~IsGaussian(prior) THEN AttributeError
  ELSE IF s.dtype # Dtype(prior) THEN DtypeError(s.dtype, Dtype(prior))
  ELSE
    LET n_ == Cast(n, Dtype(prior))
        sigma0_2 == Square(prior.sigma)
        sigma_2 == Square(sigma)
        sigmap_2 == PredictiveSigmap2(sigma0_2, n_, sigma_2)
    IN Returned(Gaussian(PredictiveMu(prior, sigma0_2, s, sigma_2, sigmap_2),
                         PredictiveSigma(sigmap_2, sigma_2)))

known_sigma_predictive(prior, sigma, s, n) ==
  IF ~IsGaussian(prior) THEN PriorTypeError
  ELSE IF s.dtype # Dtype(prior) THEN DtypeError(s.dtype, Dtype(prior))
  ELSE
    LET n_ == Cast(n, Dtype(prior))
        sigma0_2 == Square(prior.sigma)
        sigma_2 == Square(sigma)
        sigmap_2 == PredictiveSigmap2(sigma0_2, n_, sigma_2)
    IN Returned(Gaussian(PredictiveMu(prior, sigma0_2, s, sigma_2, sigmap_2),
                         PredictiveSigma(sigmap_2, sigma_2)))

(* ------------------------------ inputs ---------------------------------- *)
FloatTypes == {"float32", "float64"}
MeanVals == {Q(a, 1) : a \in -MaxNum..MaxNum}
SigmaVals == {Q(a, b) : a \in 1..MaxSig, b \in 1..MaxSig}
\* Standard deviations of a prior: rationals and square roots of rationals.
StdVals == SigmaVals \cup {ESqrt(q) : q \in SigmaVals}
Counts == 0..MaxN

IntScalar(k) == Tensor("int32", <<>>, <<k>>)

ScalarPriors(dt) == {Gaussian(Scalar(dt, m), Scalar(dt, sd)) : m \in MeanVals, sd \in StdVals}
\* A plain pair of numbers: not a Gaussian.
NonGaussians == {[type |-> "tuple", items |-> <<0, 1>>]}

Args(p, sg, sm, cnt) == [prior |-> p, sigma |-> sg, s |-> sm, n |-> cnt]

\* prior.mean = 0, prior.standard_deviation = 1, sigma = 1, s = 10, n = 10
ExampleArgs ==
  Args(Gaussian(Scalar("float32", Q(0, 1)), Scalar("float32", Q(1, 1))),
       Scalar("float32", Q(1, 1)), Scalar("float32", Q(10, 1)), IntScalar(10))

(* ------------------------------- state ---------------------------------- *)
VARIABLES
  args,     \* the caller's arguments [prior, sigma, s, n]
  post,     \* outcome of known_sigma_posterior(args)
  pred,     \* outcome of known_sigma_predictive(args)
  batch2,   \* a second batch of observations [s, n]
  post2,    \* outcome of known_sigma_posterior with post as the prior, on batch2
  whole,    \* outcome of known_sigma_posterior on both batches at once
  rev,      \* outcome of the two updates in the other order
  heap,     \* argument objects shared by the calls in flight
  fn,       \* per call: which function runs
  arg,      \* per call: which heap entry it was passed
  pc,       \* per call: the line it is about to execute
  frame,    \* per call: its local variables n, sigma0_2, sigma_2, sigmap_2
  ret,      \* per call: its outcome
  ops       \* per call: tensor operations executed so far

pureVars == <<args, post, pred>>
chainVars == <<batch2, post2, whole, rev>>
callVars == <<heap, fn, arg, pc, frame, ret, ops>>
vars == <<args, post, pred, batch2, post2, whole, rev, heap, fn, arg, pc, frame, ret, ops>>

Calls == 1..NumCalls
NoFrame == [n |-> NoResult, sigma0_2 |-> NoResult, sigma_2 |-> NoResult, sigmap_2 |-> NoResult]

\* No call in flight and no argument object allocated.
NoCalls ==
  /\ heap = <<>>
  /\ fn = [c \in Calls |-> "none"]
  /\ arg = [c \in Calls |-> 0]
  /\ pc = [c \in Calls |-> "idle"]
  /\ frame = [c \in Calls |-> NoFrame]
  /\ ret = [c \in Calls |-> NoResult]
  /\ ops = [c \in Calls |-> 0]

NoChain ==
  /\ batch2 = NoResult
  /\ post2 = NoResult
  /\ whole = NoResult
  /\ rev = NoResult

(* ----------- one call of each function on the same arguments ------------ *)
CallPosterior ==
  /\ post = NoResult
  /\ post' = known_sigma_posterior(args.prior, args.sigma, args.s, args.n)
  /\ UNCHANGED <<args, pred, chainVars, callVars>>

CallPredictive ==
  /\ pred = NoResult
  /\ pred' = known_sigma_predictive(args.prior, args.sigma, args.s, args.n)
  /\ UNCHANGED <<args, post, chainVars, callVars>>

\* Arguments with scalar parameters: the example, valid ones, ones whose s has
\* another element type than the prior, and ones whose prior is no Gaussian.
Init ==
  /\ \/ args = ExampleArgs
     \/ \E dt \in FloatTypes, sdt \in FloatTypes :
          \E p \in ScalarPriors(dt) \cup NonGaussians, sg \in SigmaVals,
             sm \in MeanVals, k \in Counts :
            args = Args(p, Scalar(dt, sg), Scalar(sdt, sm), IntScalar(k))
  /\ post = NoResult
  /\ pred = NoResult
  /\ NoChain
  /\ NoCalls

Next == CallPosterior \/ CallPredictive

Spec == Init /\ [][Next]_vars

(* ------------------- properties of a single call ------------------------ *)
\* The arguments pass both checks: a Gaussian prior and s of its element type.
ValidArgs == IsGaussian(args.prior) /\ args.s.dtype = Dtype(args.prior)

E1(t) == t.elems[1]
One == Q(1, 1)
Zero == Q(0, 1)
\* x <= y on rationals.
ELeq(x, y) == x.num * y.den <= y.num * x.den

Mu0 == E1(args.prior.mu)
Sigma0Sq == ESquare(E1(args.prior.sigma))
SigmaSq == ESquare(E1(args.sigma))
SumS == E1(args.s)
CountN == E1(args.n)

\* C1: for a Gaussian prior (mu0, sigma0 > 0), sigma > 0, s of the prior's
\* element type and n >= 0, known_sigma_posterior returns a Gaussian whose
\* variance v satisfies 1/v = 1/sigma0^2 + n/sigma^2 and whose mean is
\* (mu0/sigma0^2 + s/sigma^2) * v.
C1_PosteriorFormula ==
  (post # NoResult /\ ValidArgs) =>
    /\ post.status = "returned"
    /\ IsGaussian(post.value)
    /\ LET v == E1(Variance(post.value))
       IN /\ EDiv(One, v) = EAdd(EDiv(One, Sigma0Sq), EDiv(Q(CountN, 1), SigmaSq))
          /\ E1(post.value.mu) = EMul(EAdd(EDiv(Mu0, Sigma0Sq), EDiv(SumS, SigmaSq)), v)

C1_Witness ==
  /\ post.status = "returned"
  /\ CountN > 0 /\ SumS # Zero /\ Mu0 # Zero
  /\ Sigma0Sq # One /\ SigmaSq # One

\* C2 as stated: for prior.mean = 0, prior.standard_deviation = 1, sigma = 1,
\* s = 10, n = 10 both functions return mean 5, the posterior has variance
\* 1/11 and the predictive 1/11 + 1.
C2_ExampleMeanFive ==
  (args = ExampleArgs /\ post # NoResult /\ pred # NoResult) =>
    /\ post.status = "returned" /\ pred.status = "returned"
    /\ E1(post.value.mu) = Q(5, 1)
    /\ E1(Variance(post.value)) = Q(1, 11)
    /\ E1(pred.value.mu) = Q(5, 1)
    /\ E1(Variance(pred.value)) = EAdd(Q(1, 11), One)

\* C2 amended: for the same inputs both functions return mean 10/11, the
\* posterior has variance 1/11 and the predictive 1/11 + 1.
C2_ExampleMeanTenElevenths ==
  (args = ExampleArgs /\ post # NoResult /\ pred # NoResult) =>
    /\ post.status = "returned" /\ pred.status = "returned"
    /\ E1(post.value.mu) = Q(10, 11)
    /\ E1(Variance(post.value)) = Q(1, 11)
    /\ E1(pred.value.mu) = Q(10, 11)
    /\ E1(Variance(pred.value)) = EAdd(Q(1, 11), One)

C2_Witness ==
  /\ args = ExampleArgs
  /\ post.status = "returned"
  /\ pred.status = "returned"

\* C3 as stated: with n = 0 known_sigma_posterior returns the prior, whatever
\* the observation sum s is: its mean is prior.mean and its standard deviation
\* is prior.standard_deviation.
C3_ZeroCountReturnsPrior ==
  (post # NoResult /\ ValidArgs /\ CountN = 0) =>
    /\ post.status = "returned"
    /\ post.value.mu = args.prior.mu
    /\ post.value.sigma = args.prior.sigma

\* C3 amended: with n = 0 the returned standard deviation is
\* prior.standard_deviation for every s, and the returned mean is
\* prior.mean + s * sigma0^2 / sigma^2, which is prior.mean when s = 0.
C3_ZeroCountZeroSumReturnsPrior ==
  (post # NoResult /\ ValidArgs /\ CountN = 0) =>
    /\ post.status = "returned"
    /\ post.value.sigma = args.prior.sigma
    /\ E1(post.value.mu) = EAdd(Mu0, EDiv(EMul(SumS, Sigma0Sq), SigmaSq))
    /\ (SumS = Zero => post.value.mu = args.prior.mu)

C3_Witness ==
  /\ post.status = "returned"
  /\ CountN = 0 /\ SumS = Zero
  /\ Mu0 # Zero
  /\ E1(args.prior.sigma).root
  /\ SigmaSq # One

\* C4: on the same valid arguments known_sigma_posterior and
\* known_sigma_predictive return Gaussians with the same mean.
C4_SameMean ==
  (post # NoResult /\ pred # NoResult /\ ValidArgs) =>
    /\ post.status = "returned" /\ pred.status = "returned"
    /\ post.value.mu = pred.value.mu

C4_Witness ==
  /\ post.status = "returned" /\ pred.status = "returned"
  /\ E1(post.value.mu) # Zero
  /\ CountN > 0 /\ SigmaSq # One

\* C5: on the same valid arguments the variance known_sigma_predictive returns
\* is the variance known_sigma_posterior returns plus sigma^2, hence not smaller.
C5_PredictiveAddsNoise ==
  (post # NoResult /\ pred # NoResult /\ ValidArgs) =>
    /\ post.status = "returned" /\ pred.status = "returned"
    /\ Variance(pred.value) = Add(Variance(post.value), Square(args.sigma))
    /\ ELeq(E1(Variance(post.value)), E1(Variance(pred.value)))

C5_Witness ==
  /\ post.status = "returned" /\ pred.status = "returned"
  /\ CountN > 0 /\ SigmaSq # One /\ Sigma0Sq # One
  /\ E1(Variance(post.value)) # E1(Variance(pred.value))

\* C6: a prior that is no Gaussian makes both functions raise the TypeError
\* "Expected prior to be an instance of type Gaussian", whatever sigma, s and n
\* are, and no Gaussian is returned.
C6_InvalidPriorRaises ==
  ~IsGaussian(args.prior) =>
    /\ post # NoResult => post = PriorTypeError
    /\ pred # NoResult => pred = PriorTypeError

C6_Witness ==
  /\ ~IsGaussian(args.prior)
  /\ post = PriorTypeError
  /\ pred = PriorTypeError
  /\ args.s.dtype = "float64"

(* ------------------- a prior with a vector of means --------------------- *)
VecMeanVals == {Q(-1, 1), Q(1, 2)}
VecPriors ==
  {Gaussian(Tensor("float64", <<VecLen>>, m), Scalar("float64", sd)) :
     m \in [1..VecLen -> VecMeanVals], sd \in SigmaVals}

\* prior.mean of shape [VecLen]; prior.standard_deviation, sigma, s, n scalars.
InitBroadcast ==
  /\ \E p \in VecPriors, sg \in SigmaVals, sm \in MeanVals, k \in Counts :
       args = Args(p, Scalar("float64", sg), Scalar("float64", sm), IntScalar(k))
  /\ post = NoResult
  /\ pred = NoResult
  /\ NoChain
  /\ NoCalls

SpecBroadcast == InitBroadcast /\ [][Next]_vars

\* The scalar formulas for one prior mean mu0 and the scalar sigma0, sigma, s, n.
ScalarVar == EDiv(One, EAdd(EDiv(One, Sigma0Sq), EDiv(Q(CountN, 1), SigmaSq)))
ScalarMean(mu0) == EMul(EAdd(EDiv(mu0, Sigma0Sq), EDiv(SumS, SigmaSq)), ScalarVar)

\* C8: with prior.mean of shape [VecLen] and prior.standard_deviation, sigma, s
\* and n scalars, the result of known_sigma_posterior and of
\* known_sigma_predictive has shape [VecLen], and element i of its mean and
\* variance is what the scalar formula gives for prior.mean[i] alone.
C8_BroadcastElementwise ==
  /\ post # NoResult =>
       /\ post.status = "returned"
       /\ GaussianShape(post.value) = <<VecLen>>
       /\ \A i \in 1..VecLen :
            /\ Elem(post.value.mu, i) = ScalarMean(args.prior.mu.elems[i])
            /\ Elem(Variance(post.value), i) = ScalarVar
  /\ pred # NoResult =>
       /\ pred.status = "returned"
       /\ GaussianShape(pred.value) = <<VecLen>>
       /\ \A i \in 1..VecLen :
            /\ Elem(pred.value.mu, i) = ScalarMean(args.prior.mu.elems[i])
            /\ Elem(Variance(pred.value), i) = EAdd(ScalarVar, SigmaSq)

C8_Witness ==
  /\ post.status = "returned" /\ pred.status = "returned"
  /\ args.prior.mu.shape = <<VecLen>>
  /\ args.prior.mu.elems[1] # args.prior.mu.elems[VecLen]
  /\ Elem(post.value.mu, 1) # Elem(post.value.mu, VecLen)
  /\ CountN > 0 /\ SumS # Zero

(* ------------------------- sequential updating -------------------------- *)
\* The caller's s1 + s2 and n1 + n2.
IntAdd(x, y) == Tensor(x.dtype, x.shape, <<x.elems[1] + y.elems[1]>>)

BatchSums == {Q(-1, 1), Q(0, 1), Q(3, 2)}
Batches == {[s |-> Scalar("float32", sm), n |-> IntScalar(k)] : sm \in BatchSums, k \in Counts}

\* The first update, known_sigma_posterior(prior, sigma, s1, n1), is CallPosterior.
\* The second update takes the first one's result as its prior.
CallPosteriorOnResult ==
  /\ post.status = "returned"
  /\ post2 = NoResult
  /\ post2' = known_sigma_posterior(post.value, args.sigma, batch2.s, batch2.n)
  /\ UNCHANGED <<pureVars, batch2, whole, rev, callVars>>

\* One update with both batches: known_sigma_posterior(prior, sigma, s1 + s2, n1 + n2).
CallPosteriorOnBoth ==
  /\ post2 # NoResult
  /\ whole = NoResult
  /\ whole' = known_sigma_posterior(args.prior, args.sigma,
                                    Add(args.s, batch2.s), IntAdd(args.n, batch2.n))
  /\ UNCHANGED <<pureVars, batch2, post2, rev, callVars>>

\* The two updates with the batches in the other order.
CallPosteriorReversed ==
  /\ whole # NoResult
  /\ rev = NoResult
  /\ LET first == known_sigma_posterior(args.prior, args.sigma, batch2.s, batch2.n)
     IN rev' = known_sigma_posterior(first.value, args.sigma, args.s, args.n)
  /\ UNCHANGED <<pureVars, batch2, post2, whole, callVars>>

InitChain ==
  /\ \E p \in ScalarPriors("float32"), sg \in SigmaVals, b \in Batches :
       args = Args(p, Scalar("float32", sg), b.s, b.n)
  /\ batch2 \in Batches
  /\ post = NoResult
  /\ pred = NoResult
  /\ post2 = NoResult
  /\ whole = NoResult
  /\ rev = NoResult
  /\ NoCalls

NextChain ==
  \/ CallPosterior
  \/ CallPosteriorOnResult
  \/ CallPosteriorOnBoth
  \/ CallPosteriorReversed

SpecChain == InitChain /\ [][NextChain]_vars

\* C10: updating with batch (s1, n1) and then, with the result as the prior,
\* with batch (s2, n2) gives the mean and variance of the single update with
\* (s1 + s2, n1 + n2); the batches taken in the other order give the same.
C10_SequentialUpdatesCompose ==
  /\ whole # NoResult =>
       /\ post2.status = "returned" /\ whole.status = "returned"
       /\ post2.value.mu = whole.value.mu
       /\ Variance(post2.value) = Variance(whole.value)
  /\ rev # NoResult =>
       /\ rev.status = "returned"
       /\ rev.value.mu = post2.value.mu
       /\ Variance(rev.value) = Variance(post2.value)

C10_Witness ==
  /\ rev.status = "returned" /\ whole.status = "returned"
  /\ CountN > 0 /\ batch2.n.elems[1] > 0
  /\ args.s # batch2.s /\ args.n # batch2.n
  /\ E1(post.value.sigma).root
  /\ post.value.mu # post2.value.mu

(* ------------------- calls in flight, line by line ---------------------- *)
Functions == {"known_sigma_posterior", "known_sigma_predictive"}

\* The argument objects the callers hold; several calls may be passed the same ones.
ConcHeap ==
  << Args(Gaussian(Scalar("float32", Q(1, 1)), Scalar("float32", Q(2, 1))),
          Scalar("float32", Q(1, 2)), Scalar("float32", Q(-1, 1)), IntScalar(2)),
     Args(Gaussian(Scalar("float64", Q(0, 1)), Scalar("float64", ESqrt(Q(2, 1)))),
          Scalar("float64", Q(1, 1)), Scalar("float64", Q(2, 1)), IntScalar(1)),
     Args([type |-> "tuple", items |-> <<0, 1>>],
          Scalar("float32", Q(1, 1)), Scalar("float64", Q(1, 1)), IntScalar(1)),
     Args(Gaussian(Scalar("float64", Q(1, 1)), Scalar("float64", Q(1, 1))),
          Scalar("float64", Q(1, 1)), Scalar("float32", Q(1, 1)), IntScalar(1)) >>

InitCalls ==
  /\ args = NoResult
  /\ post = NoResult
  /\ pred = NoResult
  /\ NoChain
  /\ heap = ConcHeap
  /\ fn = [c \in Calls |-> "none"]
  /\ arg = [c \in Calls |-> 0]
  /\ pc = [c \in Calls |-> "idle"]
  /\ frame = [c \in Calls |-> NoFrame]
  /\ ret = [c \in Calls |-> NoResult]
  /\ ops = [c \in Calls |-> 0]

\* The objects call c was passed.
Passed(c) == heap[arg[c]]

\* A caller starts function f on heap entry a; the parameter n is bound to the
\* caller's object.
Invoke(c, f, a) ==
  /\ pc[c] = "idle"
  /\ fn' = [fn EXCEPT ![c] = f]
  /\ arg' = [arg EXCEPT ![c] = a]
  /\ frame' = [frame EXCEPT ![c] = [NoFrame EXCEPT !.n = heap[a].n]]
  /\ ret' = [ret EXCEPT ![c] = NoResult]
  /\ ops' = [ops EXCEPT ![c] = 0]
  /\ pc' = [pc EXCEPT ![c] = "check_prior"]
  /\ UNCHANGED <<pureVars, chainVars, heap>>

\* if not isinstance(prior, Gaussian): raise TypeError(...)
CheckPrior(c) ==
  /\ pc[c] = "check_prior"
  /\ IF ~IsGaussian(Passed(c).prior)
       THEN /\ ret' = [ret EXCEPT ![c] = PriorTypeError]
            /\ pc' = [pc EXCEPT ![c] = "raised"]
       ELSE /\ pc' = [pc EXCEPT ![c] = "check_dtype"]
            /\ UNCHANGED ret
  /\ UNCHANGED <<pureVars, chainVars, heap, fn, arg, frame, ops>>

\* The comparison inverted: raises when the element types are equal.
CheckDtypeInverted(c) ==
  /\ pc[c] = "check_dtype"
  /\ IF Passed(c).s.dtype = Dtype(Passed(c).prior)
       THEN /\ ret' = [ret EXCEPT ![c] = DtypeError(Passed(c).s.dtype, Dtype(Passed(c).prior))]
            /\ pc' = [pc EXCEPT ![c] = "raised"]
       ELSE /\ pc' = [pc EXCEPT ![c] = "cast"]
            /\ UNCHANGED ret
  /\ UNCHANGED <<pureVars, chainVars, heap, fn, arg, frame, ops>>

\* if s.dtype != prior.dtype: raise TypeError(... % (s.dtype, prior.dtype))
CheckDtype(c) ==
  /\ pc[c] = "check_dtype"
  /\ IF Passed(c).s.dtype # Dtype(Passed(c).prior)
       THEN /\ ret' = [ret EXCEPT ![c] = DtypeError(Passed(c).s.dtype, Dtype(Passed(c).prior))]
            /\ pc' = [pc EXCEPT ![c] = "raised"]
       ELSE /\ pc' = [pc EXCEPT ![c] = "cast"]
            /\ UNCHANGED ret
  /\ UNCHANGED <<pureVars, chainVars, heap, fn, arg, frame, ops>>

\* The cast written into the caller's n instead of a new tensor.
CastNInPlace(c) ==
  /\ pc[c] = "cast"
  /\ heap' = [heap EXCEPT ![arg[c]].n = Cast(frame[c].n, Dtype(Passed(c).prior))]
  /\ frame' = [frame EXCEPT ![c].n = Cast(frame[c].n, Dtype(Passed(c).prior))]
  /\ ops' = [ops EXCEPT ![c] = @ + 1]
  /\ pc' = [pc EXCEPT ![c] = "square_sigma0"]
  /\ UNCHANGED <<pureVars, chainVars, fn, arg, ret>>

\* n = math_ops.cast(n, prior.dtype): the local n is rebound to a new tensor.
CastN(c) ==
  /\ pc[c] = "cast"
  /\ frame' = [frame EXCEPT ![c].n = Cast(frame[c].n, Dtype(Passed(c).prior))]
  /\ ops' = [ops EXCEPT ![c] = @ + 1]
  /\ pc' = [pc EXCEPT ![c] = "square_sigma0"]
  /\ UNCHANGED <<pureVars, chainVars, heap, fn, arg, ret>>

\* sigma0_2 = math_ops.square(prior.sigma)
SquareSigma0(c) ==
  /\ pc[c] = "square_sigma0"
  /\ frame' = [frame EXCEPT ![c].sigma0_2 = Square(Passed(c).prior.sigma)]
  /\ ops' = [ops EXCEPT ![c] = @ + 1]
  /\ pc' = [pc EXCEPT ![c] = "square_sigma"]
  /\ UNCHANGED <<pureVars, chainVars, heap, fn, arg, ret>>

\* sigma_2 = math_ops.square(sigma)
SquareSigma(c) ==
  /\ pc[c] = "square_sigma"
  /\ frame' = [frame EXCEPT ![c].sigma_2 = Square(Passed(c).sigma)]
  /\ ops' = [ops EXCEPT ![c] = @ + 1]
  /\ pc' = [pc EXCEPT ![c] = "sigmap"]
  /\ UNCHANGED <<pureVars, chainVars, heap, fn, arg, ret>>

\* sigmap_2 = 1.0/(1/sigma0_2 + n/sigma_2)
ComputeSigmap2(c) ==
  /\ pc[c] = "sigmap"
  /\ frame' = [frame EXCEPT ![c].sigmap_2 =
                 IF fn[c] = "known_sigma_posterior"
                   THEN PosteriorSigmap2(frame[c].sigma0_2, frame[c].n, frame[c].sigma_2)
                   ELSE PredictiveSigmap2(frame[c].sigma0_2, frame[c].n, frame[c].sigma_2)]
  /\ ops' = [ops EXCEPT ![c] = @ + 1]
  /\ pc' = [pc EXCEPT ![c] = "return"]
  /\ UNCHANGED <<pureVars, chainVars, heap, fn, arg, ret>>

\* return Gaussian(mu=..., sigma=...)
Return(c) ==
  /\ pc[c] = "return"
  /\ LET f == frame[c]
         p == Passed(c)
     IN ret' = [ret EXCEPT ![c] =
                  IF fn[c] = "known_sigma_posterior"
                    THEN Returned(Gaussian(PosteriorMu(p.prior, f.sigma0_2, p.s, f.sigma_2, f.sigmap_2),
                                           PosteriorSigma(f.sigmap_2)))
                    ELSE Returned(Gaussian(PredictiveMu(p.prior, f.sigma0_2, p.s, f.sigma_2, f.sigmap_2),
                                           PredictiveSigma(f.sigmap_2, f.sigma_2)))]
  /\ ops' = [ops EXCEPT ![c] = @ + 1]
  /\ pc' = [pc EXCEPT ![c] = "done"]
  /\ UNCHANGED <<pureVars, chainVars, heap, fn, arg, frame>>

\* The caller takes the outcome; the slot is free for another call.
Finish(c) ==
  /\ pc[c] \in {"done", "raised"}
  /\ pc' = [pc EXCEPT ![c] = "idle"]
  /\ fn' = [fn EXCEPT ![c] = "none"]
  /\ arg' = [arg EXCEPT ![c] = 0]
  /\ frame' = [frame EXCEPT ![c] = NoFrame]
  /\ ret' = [ret EXCEPT ![c] = NoResult]
  /\ ops' = [ops EXCEPT ![c] = 0]
  /\ UNCHANGED <<pureVars, chainVars, heap>>

NextCalls ==
  \E c \in Calls :
    \/ \E f \in Functions, a \in 1..Len(ConcHeap) : Invoke(c, f, a)
    \/ CheckPrior(c)
    \/ CheckDtype(c)
    \/ CastN(c)
    \/ SquareSigma0(c)
    \/ SquareSigma(c)
    \/ ComputeSigmap2(c)
    \/ Return(c)
    \/ Finish(c)

SpecCalls == InitCalls /\ [][NextCalls]_vars

\* The lines before any tensor operation: the two checks.
Checking == {"idle", "check_prior", "check_dtype"}

\* C7: when prior is a Gaussian and s has another element type than prior, the
\* call raises a TypeError whose message names s's and prior's element types,
\* and it does so before any computation: no cast, no arithmetic, no Gaussian.
C7_DtypeMismatchRaisesFirst ==
  \A c \in Calls :
    (/\ pc[c] \notin Checking
     /\ IsGaussian(Passed(c).prior)
     /\ Passed(c).s.dtype # Dtype(Passed(c).prior)) =>
      /\ pc[c] = "raised"
      /\ ret[c].status = "raised"
      /\ ret[c].type = "TypeError"
      /\ ret[c].msg[2] = Passed(c).s.dtype
      /\ ret[c].msg[4] = Dtype(Passed(c).prior)
      /\ ret[c].msg[2] # ret[c].msg[4]
      /\ ops[c] = 0
      /\ frame[c] = [NoFrame EXCEPT !.n = Passed(c).n]

C7_Witness ==
  \E c, d \in Calls :
    /\ fn[c] = "known_sigma_posterior" /\ fn[d] = "known_sigma_predictive"
    /\ pc[c] = "raised" /\ pc[d] = "raised"
    /\ ret[c] = DtypeError("float32", "float64")
    /\ ret[d] = DtypeError("float32", "float64")

\* The outcome of function f run alone on arguments a.
Alone(f, a) ==
  IF f = "known_sigma_posterior"
    THEN known_sigma_posterior(a.prior, a.sigma, a.s, a.n)
    ELSE known_sigma_predictive(a.prior, a.sigma, a.s, a.n)

\* C9: however the calls interleave and repeat, each finished call has the
\* outcome the function gives alone on its arguments, and the prior, sigma, s
\* and n of every call stay as the caller passed them (n keeps its integer
\* value although the function rebinds its local n to a cast copy).
C9_CallsIndependent ==
  /\ heap = ConcHeap
  /\ \A c \in Calls :
       /\ pc[c] \in {"done", "raised"} => ret[c] = Alone(fn[c], ConcHeap[arg[c]])
       /\ pc[c] \notin {"idle", "done", "raised"} => ret[c] = NoResult

C9_Witness ==
  \E c, d \in Calls :
    /\ c # d
    /\ arg[c] = arg[d]
    /\ pc[c] = "done" /\ pc[d] = "return"
    /\ fn[c] # fn[d]
    /\ frame[d].n # Passed(d).n
    /\ Passed(c).n.dtype = "int32"

====
